---------------------------- MODULE Spec2Model ----------------------------
(***************************************************************************)
(* Model of the playbook actions of test_repo_action:                      *)
(*   HPA.py       scale_hpa_callback, scale_hpa_callback_2,                *)
(*                alert_on_hpa_reached_limit_2                             *)
(*   git_push.py  git_safe_name, obj_diff, git_push_changes                *)
(* Strings whose characters matter (resource names, paths) are sequences   *)
(* of one-character strings.                                               *)
(***************************************************************************)
EXTENDS Integers, Sequences, FiniteSets, TLC

VARIABLES
    \* ---- HPA.py ----
    hpa,          \* the HPA carried by the event: event.obj / get_horizontalpodautoscaler()
    old_obj,      \* event.old_obj of a change event
    preMax,       \* history: hpa.spec.maxReplicas when the event was dispatched
    findings,     \* the Findings appended to the event, in order
    apiCalls,     \* replaceNamespacedHorizontalPodAutoscaler calls that completed
    handler,      \* the action the dispatcher ran on the event
    hpaParams,    \* the ActionParams the action was run with
    suggestion,   \* new_max_replicas_suggestion, 0 until computed
    hpc,          \* "ready", "returned" or "raised" (an exception left the action); "off": no HPA event
    \* ---- git_push.py: git_push_changes ----
    gevent,       \* the KubernetesAnyChangeEvent
    gparams,      \* GitAuditParams
    gpc,          \* position in git_push_changes
    gitLog,       \* GitRepoManager calls issued, in order, each with its outcome
    gname,        \* local name
    gpath,        \* local path
    raised,       \* the exception raised inside the try block, "none" if none
    errorLog,     \* number of logging.error("git audit error") lines
    \* ---- git_push.py: git_safe_name on its own ----
    sname,        \* the input string
    sresult,      \* what git_safe_name returned
    spc           \* "ready" or "done"; "idle": no call

hpaVars == <<hpa, old_obj, preMax, findings, apiCalls, handler, hpaParams, suggestion, hpc>>
gitVars == <<gevent, gparams, gpc, gitLog, gname, gpath, raised, errorLog>>
nameVars == <<sname, sresult, spc>>
vars == <<hpaVars, gitVars, nameVars>>

-----------------------------------------------------------------------------
(* Bounds of the model *)

MaxReplicas == 5      \* spec.maxReplicas and status.desiredReplicas range over 1..MaxReplicas
MaxCurrent == 2       \* status.currentReplicas ranges over 0..MaxCurrent
MaxPct == 21          \* increase_pct ranges over 0..MaxPct
MaxScale == 4         \* ScaleHPAParams.max_replicas ranges over 0..MaxScale

-----------------------------------------------------------------------------
(* HPA.py *)

NoHpa == [present |-> FALSE]

HpaNames == {"web", "worker"}
HpaNamespace == "prod"

\* Python's f"{n}" of an int
FormatInt(n) == ToString(n)

\* HPA.py:42-48 / 66-72: the Finding of the scale handlers
ScaleFinding(h, max_replicas, key) ==
    [title |-> <<"Max replicas for HPA *", h.name, "* in namespace *", h.namespace,
                 "* updated to: *", FormatInt(max_replicas), "*">>,
     severity |-> "INFO",
     source |-> "PROMETHEUS",
     aggregation_key |-> key,
     enrichments |-> <<>>]

\* ReplaceCall with the two arguments in the other order
ReplaceCallSwapped(h) ==
    [name |-> h.namespace, namespace |-> h.name, maxReplicas |-> h.maxReplicas]

\* hpa.replaceNamespacedHorizontalPodAutoscaler(hpa.metadata.name, hpa.metadata.namespace):
\* the object as it is sent, and the name and namespace it is sent for
ReplaceCall(h) ==
    [name |-> h.name, namespace |-> h.namespace, maxReplicas |-> h.maxReplicas]

\* The body of scale_hpa_callback / scale_hpa_callback_2 as a state transformer:
\* the result is [hpa, apiCalls, findings, outcome].  apiOk says whether the
\* cluster API call returned rather than raised.
ScaleBody(h, fs, calls, max_replicas, key, apiOk) ==
    IF ~h.present
    THEN [hpa |-> h, apiCalls |-> calls, findings |-> fs, outcome |-> "returned"]
    ELSE LET h2 == [h EXCEPT !.maxReplicas = max_replicas]
         IN  IF ~apiOk
             THEN [hpa |-> h2, apiCalls |-> calls, findings |-> fs, outcome |-> "raised"]
             ELSE [hpa |-> h2,
                   apiCalls |-> Append(calls, ReplaceCall(h2)),
                   findings |-> Append(fs, ScaleFinding(h2, max_replicas, key)),
                   outcome |-> "returned"]

\* HPA.py:84
ReplicasUnchanged(h, old) == h.currentReplicas = old.currentReplicas

\* LimitNotReached reading the current instead of the desired replica count
LimitNotReachedByCurrent(h) == h.currentReplicas # h.maxReplicas

\* HPA.py:87
LimitNotReached(h) == h.desiredReplicas # h.maxReplicas

\* CeilDiv with integer division in place of math.ceil of the quotient
FloorDiv(n, d) == n \div d

\* math.ceil(n / d) for ints n >= 0, d > 0.  n / d is Python's true division,
\* the double nearest the quotient: for n < 2^53 it is an integer exactly when
\* d divides n, and lies strictly between the neighbouring integers otherwise.
CeilDiv(n, d) == IF n % d = 0 THEN n \div d ELSE (n \div d) + 1

\* HPA.py:91
NewMaxReplicasSuggestion(increase_pct, maxReplicas) ==
    CeilDiv((increase_pct + 100) * maxReplicas, 100)

\* HPA.py:102-107
LimitFinding(h, blocks) ==
    [title |-> <<"HPA-TEST *", h.name, "* in namespace *", h.namespace,
                 "* reached max replicas: *", FormatInt(h.maxReplicas), "*">>,
     severity |-> "LOW",
     source |-> "KUBERNETES_API_SERVER",
     aggregation_key |-> "alert_on_hpa_reached_limit_2",
     enrichments |-> <<blocks>>]

HpaInit ==
    /\ hpa \in {NoHpa} \cup
               [present : {TRUE}, name : HpaNames, namespace : {HpaNamespace},
                maxReplicas : 1..MaxReplicas,
                currentReplicas : 0..MaxCurrent,
                desiredReplicas : 1..MaxReplicas,
                cpu : {"None", "80"}]   \* status.currentCPUUtilizationPercentage
    /\ old_obj \in {NoHpa} \cup [present : {TRUE}, currentReplicas : 0..MaxCurrent]
    /\ preMax = IF hpa.present THEN hpa.maxReplicas ELSE 0
    /\ findings = <<>>
    /\ apiCalls = <<>>
    /\ handler = "none"
    /\ hpaParams = [none |-> TRUE]
    /\ suggestion = 0
    /\ hpc = "ready"

HpaIdle ==
    /\ hpa = NoHpa
    /\ old_obj = NoHpa
    /\ preMax = 0
    /\ findings = <<>>
    /\ apiCalls = <<>>
    /\ handler = "none"
    /\ hpaParams = [none |-> TRUE]
    /\ suggestion = 0
    /\ hpc = "off"

\* HPA.py:28-49
scale_hpa_callback ==
    /\ hpc = "ready"
    /\ \E max_replicas \in 0..MaxScale, apiOk \in BOOLEAN :
          LET r == ScaleBody(hpa, findings, apiCalls, max_replicas, "scale_hpa_callback", apiOk)
          IN  /\ hpa' = r.hpa
              /\ apiCalls' = r.apiCalls
              /\ findings' = r.findings
              /\ hpc' = r.outcome
              /\ hpaParams' = [max_replicas |-> max_replicas]
    /\ handler' = "scale_hpa_callback"
    /\ UNCHANGED <<old_obj, preMax, suggestion, gitVars, nameVars>>

\* HPA.py:52-73
scale_hpa_callback_2 ==
    /\ hpc = "ready"
    /\ \E max_replicas \in 0..MaxScale, apiOk \in BOOLEAN :
          LET r == ScaleBody(hpa, findings, apiCalls, max_replicas, "scale_hpa_callback_2", apiOk)
          IN  /\ hpa' = r.hpa
              /\ apiCalls' = r.apiCalls
              /\ findings' = r.findings
              /\ hpc' = r.outcome
              /\ hpaParams' = [max_replicas |-> max_replicas]
    /\ handler' = "scale_hpa_callback_2"
    /\ UNCHANGED <<old_obj, preMax, suggestion, gitVars, nameVars>>

\* HPA.py:76-117.  event.obj or event.old_obj missing is an AttributeError at
\* line 81 or 84; int(None) at line 90 is a TypeError; the Finding's title is
\* formatted at line 103, before the call of scale_hpa_callback_2 at line 113,
\* which runs as the list handed to add_enrichment is built and returns None.
alert_on_hpa_reached_limit_2 ==
    /\ hpc = "ready"
    /\ \E increase_pct \in 0..MaxPct, apiOk \in BOOLEAN :
          /\ hpaParams' = [increase_pct |-> increase_pct]
          /\ IF ~hpa.present \/ ~old_obj.present
             THEN /\ hpc' = "raised"
                  /\ UNCHANGED <<hpa, apiCalls, findings, suggestion>>
             ELSE IF ReplicasUnchanged(hpa, old_obj) \/ LimitNotReached(hpa)
             THEN /\ hpc' = "returned"
                  /\ UNCHANGED <<hpa, apiCalls, findings, suggestion>>
             ELSE IF hpa.cpu = "None"
             THEN /\ hpc' = "raised"
                  /\ UNCHANGED <<hpa, apiCalls, findings, suggestion>>
             ELSE LET s == NewMaxReplicasSuggestion(increase_pct, hpa.maxReplicas)
                      r == ScaleBody(hpa, findings, apiCalls, s, "scale_hpa_callback_2", apiOk)
                  IN  /\ suggestion' = s
                      /\ hpa' = r.hpa
                      /\ apiCalls' = r.apiCalls
                      /\ hpc' = r.outcome
                      /\ findings' =
                            IF r.outcome = "raised"
                            THEN r.findings
                            ELSE Append(r.findings,
                                        LimitFinding(hpa, <<"MarkdownBlock", "None">>))
    /\ handler' = "alert_on_hpa_reached_limit_2"
    /\ UNCHANGED <<old_obj, preMax, gitVars, nameVars>>

-----------------------------------------------------------------------------
(* git_push.py: strings *)

Lowers == <<"a", "b", "c", "d", "e", "f", "g", "h", "i", "j", "k", "l", "m", "n", "o", "p", "q", "r", "s", "t", "u", "v", "w", "x", "y", "z">>
Uppers == <<"A", "B", "C", "D", "E", "F", "G", "H", "I", "J", "K", "L", "M", "N", "O", "P", "Q", "R", "S", "T", "U", "V", "W", "X", "Y", "Z">>
Digits == <<"0", "1", "2", "3", "4", "5", "6", "7", "8", "9">>

Range(f) == {f[i] : i \in DOMAIN f}

StrYaml == <<".", "y", "a", "m", "l">>
StrApi == <<"a", "p", "i">>
StrConsumer == <<"c", "o", "n", "s", "u", "m", "e", "r">>
StrMain == <<"m", "a", "i", "n">>
StrPatches == <<"p", "a", "t", "c", "h", "e", "s">>
StrNone == <<"N", "o", "n", "e">>
Slash == <<"/">>

\* str.lower() on ASCII
LowerChar(c) ==
    IF \E i \in DOMAIN Uppers : Uppers[i] = c
    THEN Lowers[CHOOSE i \in DOMAIN Uppers : Uppers[i] = c]
    ELSE c

Lower(s) == [i \in 1..Len(s) |-> LowerChar(s[i])]

\* Python's  sub in s
Contains(s, sub) ==
    \E i \in 1..(Len(s) - Len(sub) + 1) : SubSeq(s, i, i + Len(sub) - 1) = sub

\* s.partition(sep)[2] for a one-character sep: what follows the first sep, "" if there is none
RECURSIVE PartitionTail(_, _)
PartitionTail(s, sep) ==
    IF s = <<>> THEN <<>>
    ELSE IF Head(s) = sep THEN Tail(s)
    ELSE PartitionTail(Tail(s), sep)

\* The character class [^0-9a-zA-Z\-] of git_push.py:55
ClassNoHyphenExempt(c) == c \notin (Range(Digits) \cup Range(Lowers) \cup Range(Uppers))

MatchesClass(c) == c \notin (Range(Digits) \cup Range(Lowers) \cup Range(Uppers) \cup {"-"})

\* The greedy + of the pattern: what is left of s after the longest prefix of class characters
RECURSIVE AfterRun(_)
AfterRun(s) ==
    IF s = <<>> THEN <<>>
    ELSE IF MatchesClass(Head(s)) THEN AfterRun(Tail(s))
    ELSE s

\* git_push.py:54-55: re.sub("[^0-9a-zA-Z\\-]+", "-", name), leftmost matches, left to right
RECURSIVE git_safe_name(_)
git_safe_name(name) ==
    IF name = <<>> THEN <<>>
    ELSE IF MatchesClass(Head(name)) THEN <<"-">> \o git_safe_name(AfterRun(name))
    ELSE <<Head(name)>> \o git_safe_name(Tail(name))

-----------------------------------------------------------------------------
(* git_push.py: git_safe_name on its own *)

MaxNameLen == 3       \* input strings of up to MaxNameLen characters

Alphabet == {"a", "Z", "7", "-", "_", "!"}

NameMyService == <<"m", "y", "_", "s", "e", "r", "v", "i", "c", "e", "!", "1">>

BoundedStrings == UNION {[1..n -> Alphabet] : n \in 0..MaxNameLen}

NameInit ==
    /\ sname \in BoundedStrings \cup {NameMyService}
    /\ sresult = <<>>
    /\ spc = "ready"

NameIdle ==
    /\ sname = <<>>
    /\ sresult = <<>>
    /\ spc = "idle"

CallGitSafeName ==
    /\ spc = "ready"
    /\ sresult' = git_safe_name(sname)
    /\ spc' = "done"
    /\ UNCHANGED <<sname, hpaVars, gitVars>>

-----------------------------------------------------------------------------
(* git_push.py: git_push_changes *)

MaxOwners == 1        \* len(metadata.ownerReferences) ranges over 0..MaxOwners
MaxVal == 2           \* each spec field ranges over 1..MaxVal

\* git_push.py:58-64
skipped_kinds == {"Event", "ClusterRole", "ClusterRoleBinding", "ServiceAccount", "ConfigMap"}

Kinds == skipped_kinds \cup {"Deployment"}

NameThermaAccountApi == <<"t", "h", "e", "r", "m", "a", "-", "a", "c", "c", "o", "u", "n", "t", "-", "a", "p", "i", "-", "s", "e", "r", "v", "i", "c", "e">>
NameApiGateway == <<"a", "p", "i", "-", "g", "a", "t", "e", "w", "a", "y">>
NameBillingWorker == <<"t", "h", "e", "r", "m", "a", "-", "b", "i", "l", "l", "i", "n", "g", "-", "w", "o", "r", "k", "e", "r">>
NameUpperApi == <<"t", "h", "e", "r", "m", "a", "-", "A", "P", "I", "-", "p", "r", "o", "x", "y">>
NsBeta == <<"b", "e", "t", "a">>

ResourceNames == {NameThermaAccountApi, NameApiGateway, NameBillingWorker, NameUpperApi}

\* metadata.namespace; <<>> stands for a missing (None or empty) namespace
Namespaces == {NsBeta, <<>>}

Fields == {"replicas", "image"}
Specs == [Fields -> 1..MaxVal]
NoObj == [present |-> FALSE]

\* event.old_obj.spec if event.old_obj else None   (git_push.py:137)
OldSpec(e) ==
    IF e.old_obj.present THEN [isNone |-> FALSE, value |-> e.old_obj.spec]
    ELSE [isNone |-> TRUE]

\* HikaruBase.diff: one DiffDetail per attribute that differs, named by its path
Diff(spec, old) == {f \in Fields : spec[f] # old[f]}

\* robusta's is_matching_diff: some pattern occurs in the diff's path
is_matching_diff(d, ignored_changes) == \E p \in ignored_changes : p = d

\* git_push.py:75-81
obj_diff(spec, old_spec, ignored_changes) ==
    IF old_spec.isNone THEN TRUE
    ELSE LET all_diffs == Diff(spec, old_spec.value)
             filtered_diffs == {d \in all_diffs : ~is_matching_diff(d, ignored_changes)}
         IN  Cardinality(filtered_diffs) > 0

\* Skipped without the owner-references test
SkippedByKindOnly(e) == e.kind \in skipped_kinds

\* git_push.py:93-97
Skipped(e) == e.kind \in skipped_kinds \/ e.ownerReferences # 0

\* git_push.py:107
FileName(e) == git_safe_name(e.name) \o StrYaml

\* git_push.py:108:  event.obj.metadata.namespace or "None"
NamespaceOrNone(e) == IF e.namespace = <<>> THEN StrNone ELSE e.namespace

\* git_push.py:113
NewName(name) == PartitionTail(name, "-")

\* git_push.py:115
BranchDir(new_name) == IF Contains(Lower(new_name), StrApi) THEN StrApi ELSE StrConsumer

\* git_push.py:115-118
PatchPath(namespace, new_name) ==
    git_safe_name(namespace) \o Slash \o BranchDir(new_name) \o Slash
        \o git_safe_name(new_name) \o Slash \o StrMain \o Slash \o StrPatches

\* hikaru.get_yaml returns the YAML text, a str (git_push.py:127-130 hands it to
\* commit_push as the file's content); a str has no .items()  (git_push.py:148)
StrHasItems == FALSE

\* The exceptions the steps raise; all derive from Exception
ExceptionKinds == {"TypeError", "GitError", "DiffError", "YamlError", "AttributeError"}

\* git_push.py:165:  except Exception
OnlyGitErrorIsCaught(e) == e = "GitError"

IsCaught(e) == e \in ExceptionKinds

GitInit ==
    /\ gevent \in
         {e \in [kind : Kinds, name : ResourceNames, namespace : Namespaces,
                 ownerReferences : 0..MaxOwners,
                 operation : {"create", "update", "delete"},
                 spec : Specs,
                 old_obj : {NoObj} \cup [present : {TRUE}, spec : Specs]] :
             e.operation # "update" => e.old_obj = NoObj}
    /\ gparams \in [ignored_changes : SUBSET Fields]
    /\ gpc = "start"
    /\ gitLog = <<>>
    /\ gname = <<>>
    /\ gpath = <<>>
    /\ raised = "none"
    /\ errorLog = 0

GitIdle ==
    /\ gevent = NoObj
    /\ gparams = [ignored_changes |-> {}]
    /\ gpc = "off"
    /\ gitLog = <<>>
    /\ gname = <<>>
    /\ gpath = <<>>
    /\ raised = "none"
    /\ errorLog = 0

\* An exception e raised inside the try block of git_push.py:92-166
Raise(e) ==
    /\ raised' = e
    /\ IF IsCaught(e)
       THEN /\ errorLog' = errorLog + 1
            /\ gpc' = "returned"
       ELSE /\ errorLog' = errorLog
            /\ gpc' = "propagated"

Return ==
    /\ gpc' = "returned"
    /\ UNCHANGED <<raised, errorLog>>

Call(op, ok) == [op |-> op, ok |-> ok]
Push(op, ok, content) ==
    [op |-> op, ok |-> ok, path |-> gpath, name |-> gname, content |-> content]

\* git_push.py:93-97.  Reading the event can raise: len() of ownerReferences
\* that is None is a TypeError (readOk = FALSE).
CheckSkipped ==
    /\ gpc = "start"
    /\ \E readOk \in BOOLEAN :
          IF gevent.kind \notin skipped_kinds /\ ~readOk THEN Raise("TypeError")
          ELSE IF Skipped(gevent) THEN Return
          ELSE /\ gpc' = "get_git_repo"
               /\ UNCHANGED <<raised, errorLog>>
    /\ UNCHANGED <<gevent, gparams, gitLog, gname, gpath, hpaVars, nameVars>>

\* git_push.py:99-102
GetGitRepo ==
    /\ gpc = "get_git_repo"
    /\ \E ok \in BOOLEAN :
          /\ gitLog' = Append(gitLog, Call("get_git_repo", ok))
          /\ IF ok THEN /\ gpc' = "path"
                        /\ UNCHANGED <<raised, errorLog>>
             ELSE Raise("GitError")
    /\ UNCHANGED <<gevent, gparams, gname, gpath, hpaVars, nameVars>>

\* git_push.py:107-118
ComputePath ==
    /\ gpc = "path"
    /\ gname' = FileName(gevent)
    /\ gpath' = PatchPath(NamespaceOrNone(gevent), NewName(FileName(gevent)))
    /\ gpc' = "pull_rebase"
    /\ UNCHANGED <<gevent, gparams, gitLog, raised, errorLog, hpaVars, nameVars>>

\* PullRebase with the rebase left out
PullRebaseOmitted ==
    /\ gpc = "pull_rebase"
    /\ gpc' = "operation"
    /\ UNCHANGED <<gevent, gparams, gitLog, gname, gpath, raised, errorLog, hpaVars, nameVars>>

\* git_push.py:120
PullRebase ==
    /\ gpc = "pull_rebase"
    /\ \E ok \in BOOLEAN :
          /\ gitLog' = Append(gitLog, Call("pull_rebase", ok))
          /\ IF ok THEN /\ gpc' = "operation"
                        /\ UNCHANGED <<raised, errorLog>>
             ELSE Raise("GitError")
    /\ UNCHANGED <<gevent, gparams, gname, gpath, hpaVars, nameVars>>

\* git_push.py:124-125
DeletePush ==
    /\ gpc = "operation"
    /\ gevent.operation = "delete"
    /\ \E ok \in BOOLEAN :
          /\ gitLog' = Append(gitLog, Push("delete_push", ok, "none"))
          /\ IF ok THEN Return ELSE Raise("GitError")
    /\ UNCHANGED <<gevent, gparams, gname, gpath, hpaVars, nameVars>>

\* git_push.py:126-135
CreateCommitPush ==
    /\ gpc = "operation"
    /\ gevent.operation = "create"
    /\ \E yamlOk \in BOOLEAN, ok \in BOOLEAN :
          IF ~yamlOk
          THEN /\ Raise("YamlError")
               /\ UNCHANGED gitLog
          ELSE /\ gitLog' = Append(gitLog, Push("commit_push", ok, "yaml(obj)"))
               /\ IF ok THEN Return ELSE Raise("GitError")
    /\ UNCHANGED <<gevent, gparams, gname, gpath, hpaVars, nameVars>>

\* git_push.py:136-164
UpdateCommitPush ==
    /\ gpc = "operation"
    /\ gevent.operation = "update"
    /\ \E diffOk \in BOOLEAN, yamlOk \in BOOLEAN, ok \in BOOLEAN :
          IF ~OldSpec(gevent).isNone /\ ~diffOk
          THEN /\ Raise("DiffError")
               /\ UNCHANGED gitLog
          ELSE IF ~obj_diff(gevent.spec, OldSpec(gevent), gparams.ignored_changes)
          THEN /\ Return
               /\ UNCHANGED gitLog
          ELSE IF ~yamlOk
          THEN /\ Raise("YamlError")
               /\ UNCHANGED gitLog
          ELSE IF ~StrHasItems
          THEN /\ Raise("AttributeError")
               /\ UNCHANGED gitLog
          ELSE /\ gitLog' = Append(gitLog, Push("commit_push", ok, "yaml(filtered)"))
               /\ IF ok THEN Return ELSE Raise("GitError")
    /\ UNCHANGED <<gevent, gparams, gname, gpath, hpaVars, nameVars>>

-----------------------------------------------------------------------------
(* The dispatcher runs one action on one event *)

Init ==
    \/ HpaInit /\ GitIdle /\ NameIdle
    \/ HpaIdle /\ GitInit /\ NameIdle
    \/ HpaIdle /\ GitIdle /\ NameInit

Next ==
    \/ scale_hpa_callback
    \/ scale_hpa_callback_2
    \/ alert_on_hpa_reached_limit_2
    \/ CheckSkipped
    \/ GetGitRepo
    \/ ComputePath
    \/ PullRebase
    \/ DeletePush
    \/ CreateCommitPush
    \/ UpdateCommitPush
    \/ CallGitSafeName

Spec == Init /\ [][Next]_vars

-----------------------------------------------------------------------------
(* Properties of the HPA actions *)

ScaleKeys == {"scale_hpa_callback", "scale_hpa_callback_2"}
LimitKey == "alert_on_hpa_reached_limit_2"

TitleHas(f, n) == \E j \in DOMAIN f.title : f.title[j] = ToString(n)

\* The limit-reached handler fired: its Finding is on the event
LimitFired == \E i \in DOMAIN findings : findings[i].aggregation_key = LimitKey

\* C1: after a scale handler has run with max_replicas = N on an event that
\* carries an HPA and has returned, the HPA's spec.maxReplicas is N, one replace
\* call was made for the HPA's name and namespace carrying maxReplicas = N, and
\* an INFO Finding whose title contains N is on the event.
C1_ScaleSetsMaxReplicas ==
    (handler \in ScaleKeys /\ hpc = "returned" /\ hpa.present) =>
        /\ hpa.maxReplicas = hpaParams.max_replicas
        /\ apiCalls = <<[name |-> hpa.name, namespace |-> hpa.namespace,
                         maxReplicas |-> hpaParams.max_replicas]>>
        /\ Len(findings) = 1
        /\ findings[1].severity = "INFO"
        /\ findings[1].aggregation_key = handler
        /\ TitleHas(findings[1], hpaParams.max_replicas)

C1_Witness ==
    /\ handler = "scale_hpa_callback"
    /\ hpc = "returned"
    /\ hpa.present
    /\ hpaParams.max_replicas = 3
    /\ preMax = 5
    /\ hpa.maxReplicas = 3
    /\ Len(apiCalls) = 1

\* C4 (as claimed): when the limit-reached handler fires, it only emits its
\* LOW Finding, which carries the suggestion as a callback enrichment: the
\* HPA's spec.maxReplicas is what it was, no replace call was made and no
\* scale Finding is on the event.
C4_FiringOnlyEmits ==
    (handler = LimitKey /\ hpc = "returned" /\ LimitFired) =>
        /\ hpa.maxReplicas = preMax
        /\ apiCalls = <<>>
        /\ \A i \in DOMAIN findings :
              /\ findings[i].aggregation_key \notin ScaleKeys
              /\ findings[i].severity = "LOW"
              /\ \E b \in DOMAIN findings[i].enrichments[1] :
                    findings[i].enrichments[1][b] = "CallbackBlock"

\* C5: the limit-reached handler, run on an event with both objects, leaves the
\* event without Finding and the HPA unmodified and unpatched whenever
\* currentReplicas equals the previous currentReplicas or desiredReplicas
\* differs from maxReplicas; if it fired, the count changed and
\* desiredReplicas equalled maxReplicas.
C5_LimitGuard ==
    (handler = LimitKey /\ hpa.present /\ old_obj.present) =>
        /\ (hpa.currentReplicas = old_obj.currentReplicas \/ hpa.desiredReplicas # preMax) =>
              /\ findings = <<>>
              /\ apiCalls = <<>>
              /\ hpa.maxReplicas = preMax
        /\ LimitFired =>
              /\ hpa.currentReplicas # old_obj.currentReplicas
              /\ hpa.desiredReplicas = preMax

C5_Witness ==
    /\ handler = LimitKey
    /\ hpc = "returned"
    /\ hpa.present /\ old_obj.present
    /\ hpa.currentReplicas # old_obj.currentReplicas
    /\ hpa.desiredReplicas # preMax
    /\ hpa.cpu = "80"
    /\ findings = <<>>

\* C8: the ceiling the limit-reached handler suggests is the smallest integer
\* that is at least (increase_pct + 100) * current_max / 100; for
\* current_max = 5 and increase_pct = 20 it is 6.
C8_SuggestionIsCeiling ==
    (handler = LimitKey /\ suggestion # 0) =>
        LET n == (hpaParams.increase_pct + 100) * preMax
        IN  /\ suggestion * 100 >= n
            /\ (suggestion - 1) * 100 < n
            /\ (preMax = 5 /\ hpaParams.increase_pct = 20) => suggestion = 6

C8_Witness ==
    /\ handler = LimitKey
    /\ preMax = 5
    /\ hpaParams.increase_pct = 20
    /\ suggestion = 6

-----------------------------------------------------------------------------
(* Properties of git_safe_name *)

AllowedChars == Range(Digits) \cup Range(Lowers) \cup Range(Uppers) \cup {"-"}

ExpectedMyService == <<"m", "y", "-", "s", "e", "r", "v", "i", "c", "e", "-", "1">>

\* Position i of s begins a maximal run of characters outside [0-9a-zA-Z-]
RunStart(s, i) == s[i] \notin AllowedChars /\ (i = 1 \/ s[i - 1] \in AllowedChars)

\* Where the character at position i of s ends up: one output position per
\* allowed character and one per run
OutPos(s, i) == Cardinality({j \in 1..i : s[j] \in AllowedChars \/ RunStart(s, j)})

\* C9: git_safe_name returns only characters of [0-9a-zA-Z-]; every
\* alphanumeric character and hyphen of the input is kept, in order, and each
\* maximal run of other characters becomes one hyphen; "my_service!1" becomes
\* "my-service-1".
C9_GitSafeName ==
    spc = "done" =>
        /\ \A k \in DOMAIN sresult : sresult[k] \in AllowedChars
        /\ Len(sresult) = OutPos(sname, Len(sname))
        /\ \A i \in DOMAIN sname :
              sresult[OutPos(sname, i)] = IF sname[i] \in AllowedChars THEN sname[i] ELSE "-"
        /\ sname = NameMyService => sresult = ExpectedMyService

C9_Witness ==
    /\ spc = "done"
    /\ sname = NameMyService
    /\ sresult = ExpectedMyService

-----------------------------------------------------------------------------
(* Properties of git_push_changes *)

Count(op) == Cardinality({i \in DOMAIN gitLog : gitLog[i].op = op})

NotAudited(e) ==
    \/ e.kind \in {"Event", "ClusterRole", "ClusterRoleBinding", "ServiceAccount", "ConfigMap"}
    \/ e.ownerReferences > 0

\* Exceptions of a malformed event and of the steps the handler calls out to,
\* as opposed to one raised by the handler's own statements on a well-formed
\* event
StepFailures == {"TypeError", "GitError", "DiffError", "YamlError"}

\* C2 (as claimed): an update event on an object that is not skipped, in which
\* the event is read and no called step fails, ends with no commit_push when the filtered diff is
\* empty and with one commit_push of the object's YAML when it is not (a
\* missing old object counts as a non-empty diff).
C2_UpdateCommitsIffDiff ==
    (gpc = "returned" /\ gevent.operation = "update" /\ ~NotAudited(gevent)
        /\ raised \notin StepFailures) =>
        IF obj_diff(gevent.spec, OldSpec(gevent), gparams.ignored_changes)
        THEN Count("commit_push") = 1
        ELSE Count("commit_push") = 0

\* The directory of a path: namespace/branch/service/main/patches
HasBranch(path, ns, branch) ==
    LET prefix == ns \o Slash \o branch \o Slash
    IN  Len(path) >= Len(prefix) /\ SubSeq(path, 1, Len(prefix)) = prefix

ClaimedDir == <<"b", "e", "t", "a", "/", "a", "p", "i", "/", "a", "c", "c", "o", "u", "n", "t", "-", "s", "e", "r", "v", "i", "c", "e", "/", "m", "a", "i", "n", "/", "p", "a", "t", "c", "h", "e", "s">>
ClaimedFile == <<"a", "c", "c", "o", "u", "n", "t", "-", "a", "p", "i", "-", "s", "e", "r", "v", "i", "c", "e", ".", "y", "a", "m", "l">>

\* C3 (as claimed): once the path is computed, the branch directory is api
\* exactly when the resource name contains "api", consumer otherwise, and
\* "therma-account-api-service" in namespace "beta" resolves to directory
\* beta/api/account-service/main/patches and file account-api-service.yaml.
C3_PathAsClaimed ==
    gpc \in {"pull_rebase", "operation"} =>
        /\ HasBranch(gpath, NamespaceOrNone(gevent),
                     IF Contains(gevent.name, StrApi) THEN StrApi ELSE StrConsumer)
        /\ (gevent.name = NameThermaAccountApi /\ gevent.namespace = NsBeta) =>
              (gpath = ClaimedDir /\ gname = ClaimedFile)

\* C6: for an event whose kind is in the skip list or whose object has owner
\* references, whatever the operation, git_push_changes makes no Git call: no
\* repository lookup, no pull_rebase, no commit_push, no delete_push.
C6_SkippedNoGit ==
    (gpc # "off" /\ NotAudited(gevent)) => gitLog = <<>>

C6_Witness ==
    /\ gpc = "returned"
    /\ gevent.kind = "ConfigMap"
    /\ gevent.ownerReferences = 0
    /\ gevent.operation = "delete"
    /\ gitLog = <<>>

\* C7: no exception leaves git_push_changes: once a step has raised, the
\* exception is logged once and the handler has returned; a Git call that
\* failed is the last Git call, and after a failed diff or serialization no
\* push is made.
C7_ExceptionsSwallowed ==
    /\ gpc # "propagated"
    /\ raised # "none" => (gpc = "returned" /\ errorLog = 1)
    /\ raised = "none" => errorLog = 0
    /\ \A i \in DOMAIN gitLog :
          ~gitLog[i].ok => (i = Len(gitLog) /\ raised = "GitError")
    /\ raised \in {"TypeError", "DiffError", "YamlError", "AttributeError"} =>
          (Count("commit_push") = 0 /\ Count("delete_push") = 0)

C7_Witness ==
    /\ gpc = "returned"
    /\ raised = "YamlError"
    /\ errorLog = 1
    /\ gevent.operation = "create"
    /\ Count("pull_rebase") = 1
    /\ Count("commit_push") = 0

\* A pull_rebase completed before call i
RebasedBefore(i) ==
    \E j \in 1..(i - 1) : gitLog[j].op = "pull_rebase" /\ gitLog[j].ok

PushesAfterRebase ==
    \A i \in DOMAIN gitLog :
        gitLog[i].op \in {"commit_push", "delete_push"} => RebasedBefore(i)

RebaseCompleted == \E j \in DOMAIN gitLog : gitLog[j].op = "pull_rebase" /\ gitLog[j].ok

\* C10 (as claimed): no commit_push or delete_push is issued unless
\* pull_rebase completed earlier in the invocation; a delete event issues
\* exactly one delete_push and no commit_push, a create event exactly one
\* commit_push and no delete_push.
C10_AsClaimed ==
    /\ PushesAfterRebase
    /\ gpc = "returned" =>
          /\ gevent.operation = "delete" =>
                (Count("delete_push") = 1 /\ Count("commit_push") = 0)
          /\ gevent.operation = "create" =>
                (Count("commit_push") = 1 /\ Count("delete_push") = 0)

\* C10 (amended): no commit_push or delete_push is issued unless pull_rebase
\* completed earlier in the invocation; a delete event never issues a
\* commit_push and issues exactly one delete_push if its pull_rebase
\* completed, none otherwise; a create event never issues a delete_push and
\* issues exactly one commit_push if its pull_rebase and the YAML
\* serialization completed, none otherwise.
C10_PushAfterRebase ==
    /\ PushesAfterRebase
    /\ gpc = "returned" =>
          /\ gevent.operation = "delete" =>
                /\ Count("commit_push") = 0
                /\ Count("delete_push") = IF RebaseCompleted THEN 1 ELSE 0
          /\ gevent.operation = "create" =>
                /\ Count("delete_push") = 0
                /\ Count("commit_push") =
                      IF RebaseCompleted /\ raised # "YamlError" THEN 1 ELSE 0

C10_Witness ==
    /\ gpc = "returned"
    /\ gevent.operation = "delete"
    /\ Len(gitLog) = 3
    /\ gitLog[2] = [op |-> "pull_rebase", ok |-> TRUE]
    /\ gitLog[3].op = "delete_push"

=============================================================================
